---------------------------- MODULE Spec2Model ----------------------------
(***************************************************************************)
(* A model of awards_watch.py: the relevance scorer (score_item), the      *)
(* stable identifier (stable_id), the persisted seen-set (load_seen,       *)
(* save_seen), the two source adapters (parse_rss, parse_listing) and the  *)
(* pipeline main().                                                        *)
(*                                                                         *)
(* Python strings are tuples of one-character strings, so that strip,      *)
(* lower, concatenation and the substring test `kw in t` are computed.     *)
(* Scores are counted in tenths (1.0 is 10, 0.6 is 6, 0.8 is 8): the sums  *)
(* are exact here, the rounding of Python's binary floats is not modelled. *)
(* sha256(...).hexdigest()[:24] is modelled as an injective tagging of its *)
(* input.                                                                  *)
(***************************************************************************)
EXTENDS Integers, Sequences, FiniteSets, TLC

VARIABLES
    \* ---- the world outside the process ----
    sources_json,   \* sources.json: whether it exists, and the list of source records in it
    state_file,     \* state_seen.json: absent, corrupt, or a JSON list of ids
    index_html,     \* docs/index.html: whether it exists, and the threshold and items rendered
    environ,        \* os.environ: MIN_SCORE and MARK_SEEN ("unset" or a string)
    \* ---- main()'s locals ----
    pc,             \* where main() stands
    sources,        \* sources (line 212)
    seen,           \* seen (line 213)
    min_score,      \* min_score (line 215), in tenths
    mark_seen,      \* mark_seen (line 216)
    all_items,      \* all_items (line 218)
    errors,         \* errors (line 219)
    si,             \* index of the source the for loop of line 221 is at
    items,          \* items of the current source (lines 224, 226)
    ii,             \* index of the item the for loop of line 231 is at
    raised,         \* the exception that left main(), "none" while there is none
    \* ---- history of the run, for stating properties ----
    seen0,          \* the set load_seen returned in this run
    fetched,        \* indices of the sources whose adapter was called in this run
    wrote,          \* docs/index.html was written in this run
    saved,          \* save_seen was called in this run
    prev,           \* whether the previous run returned normally in mark-seen mode, and its min_score
    \* ---- inputs and results of the pure functions, checked on their own ----
    text, scored,   \* score_item's argument, and << >> or its result in a 1-tuple
    pairA, pairB, idA, idB  \* two (url, title) pairs, and << >> or their stable ids

worldVars == <<sources_json, state_file, index_html, environ>>
localVars == <<pc, sources, seen, min_score, mark_seen, all_items, errors, si, items, ii, raised>>
histVars  == <<seen0, fetched, wrote, saved, prev>>
scoreVars == <<text, scored>>
idVars    == <<pairA, pairB, idA, idB>>
vars == <<worldVars, localVars, histVars, scoreVars, idVars>>

-----------------------------------------------------------------------------
(* Sequences and strings *)

Range(s) == {s[i] : i \in DOMAIN s}

MaxOf(a, b) == IF a >= b THEN a ELSE b

MinOf(a, b) == IF a <= b THEN a ELSE b

\* s[:n]
Take(s, n) == SubSeq(s, 1, MinOf(n, Len(s)))

\* str.strip(): leading and trailing whitespace removed
IsSpace(c) == c = " "

RECURSIVE lstrip(_)
lstrip(s) == IF s # << >> /\ IsSpace(Head(s)) THEN lstrip(Tail(s)) ELSE s

RECURSIVE rstrip(_)
rstrip(s) == IF s # << >> /\ IsSpace(s[Len(s)]) THEN rstrip(SubSeq(s, 1, Len(s) - 1)) ELSE s

strip(s) == rstrip(lstrip(s))

\* str.lower(), on the letters the model's texts use
LowerChar(c) ==
    CASE c = "A" -> "a" [] c = "F" -> "f" [] c = "L" -> "l" [] c = "N" -> "n"
      [] c = "O" -> "o" [] c = "P" -> "p" [] c = "R" -> "r" [] c = "T" -> "t"
      [] c = "W" -> "w" [] OTHER -> c

lower(s) == [i \in DOMAIN s |-> LowerChar(s[i])]

\* kw in t: kw is a substring of t
Contains(kw, t) ==
    \E i \in 1..(Len(t) - Len(kw) + 1) : SubSeq(t, i, i + Len(kw) - 1) = kw

\* s.startswith(p)
StartsWith(s, p) == Len(s) >= Len(p) /\ SubSeq(s, 1, Len(p)) = p

\* list(dict.fromkeys(hits)): first occurrences, in order
RECURSIVE Dedupe(_)
Dedupe(s) ==
    IF s = << >> THEN << >>
    ELSE LET r == Dedupe(SubSeq(s, 1, Len(s) - 1))
             x == s[Len(s)]
         IN  IF x \in Range(r) THEN r ELSE Append(r, x)

-----------------------------------------------------------------------------
(* score_item, lines 21-54 *)

AWARD_TERMS == <<
    <<"o","s","c","a","r">>, <<"o","s","c","a","r","s">>, <<"a","c","a","d","e","m","y"," ","a","w","a","r","d">>, <<"a","c","a","d","e","m","y"," ","a","w","a","r","d","s">>,
    <<"b","a","f","t","a">>, <<"e","m","m","y">>, <<"g","o","l","d","e","n"," ","g","l","o","b","e">>, <<"g","o","l","d","e","n"," ","g","l","o","b","e","s">>,
    <<"s","a","g">>, <<"d","g","a">>, <<"p","g","a">>, <<"w","g","a">>, <<"g","u","i","l","d">>,
    <<"n","o","m","i","n","e","e">>, <<"n","o","m","i","n","e","e","s">>, <<"n","o","m","i","n","a","t","i","o","n">>, <<"n","o","m","i","n","a","t","i","o","n","s">>,
    <<"s","h","o","r","t","l","i","s","t">>, <<"l","o","n","g","l","i","s","t">>, <<"w","i","n","n","e","r">>, <<"w","i","n","n","e","r","s">>, <<"w","i","n","s">>,
    <<"f","o","r"," ","y","o","u","r"," ","c","o","n","s","i","d","e","r","a","t","i","o","n">>, <<"f","y","c">>, <<"c","a","m","p","a","i","g","n">>, <<"c","o","n","t","e","n","d","e","r">>, <<"a","w","a","r","d","s"," ","s","e","a","s","o","n">>,
    <<"c","r","i","t","i","c","s"," ","c","h","o","i","c","e">>, <<"c","a","n","n","e","s">>, <<"v","e","n","i","c","e">>, <<"b","e","r","l","i","n">>, <<"s","u","n","d","a","n","c","e">>, <<"t","e","l","l","u","r","i","d","e">>, <<"t","i","f","f">> >>

NEGATIVE_HINTS == << <<"t","r","a","i","l","e","r">>, <<"t","e","a","s","e","r">>, <<"b","o","x"," ","o","f","f","i","c","e">>, <<"f","i","r","s","t"," ","l","o","o","k">>, <<"p","o","s","t","e","r">> >>

strong == << <<"n","o","m","i","n","a","t","i","o","n","s">>, <<"n","o","m","i","n","e","e","s">>, <<"s","h","o","r","t","l","i","s","t">>, <<"l","o","n","g","l","i","s","t">>, <<"w","i","n","n","e","r","s">>, <<"w","i","n","s">>,
             <<"e","l","i","g","i","b","i","l","i","t","y">>, <<"r","u","l","e","s">>, <<"d","e","a","d","l","i","n","e">> >>

AwardWeight == 10

StrongWeight == 6

NegativeWeight == 8

MaxScore == 100

MaxHits == 10

\* the keywords of kws that occur in t, in the order of kws
Matches(kws, t) == SelectSeq(kws, LAMBDA kw : Contains(kw, t))

\* score = max(0.0, min(score, 10.0)) with the lower bound dropped
ClampNoFloor(score) == MinOf(score, MaxScore)

\* score = max(0.0, min(score, 10.0))
Clamp(score) == MaxOf(0, MinOf(score, MaxScore))

\* hits = list(dict.fromkeys(hits))[:10]
CapHits(hits) == Take(Dedupe(hits), MaxHits)

score_item(txt) ==
    LET t    == lower(txt)
        hits == Matches(AWARD_TERMS, t)
        raw  == AwardWeight * Len(hits)
                + StrongWeight * Len(Matches(strong, t))
                - NegativeWeight * Len(Matches(NEGATIVE_HINTS, t))
    IN  [score |-> Clamp(raw), hits |-> CapHits(hits)]

-----------------------------------------------------------------------------
(* stable_id, lines 56-57 *)

\* Python's None, where a str is expected
None == <<"None">>

\* title or ""
OrEmpty(s) == IF s = None THEN << >> ELSE s

\* hashlib.sha256(b).hexdigest()[:24], taken as collision-free
sha256_24(b) == <<"sha256", b>>

stable_id(url, title) == sha256_24(strip(url) \o <<"|">> \o strip(OrEmpty(title)))

-----------------------------------------------------------------------------
(* The web: what each location answers.  Publish times are whole days      *)
(* relative to 1970-01-01 UTC, a struct_time is <<day>>; the process's     *)
(* local time zone is UTC.                                                 *)

FeedA == <<"h","t","t","p",":","/","/","f",".","c","o","/","r","s","s">>

FeedB == <<"h","t","t","p",":","/","/","g",".","c","o","/","r","s","s">>

PageP == <<"h","t","t","p",":","/","/","p",".","c","o","/","n","e","w","s">>

PageDown == <<"h","t","t","p",":","/","/","q",".","c","o","/","n","e","w","s">>

\* an entry without published_parsed
NoTime == << >>

Web(url) ==
    CASE url = FeedA ->
           [kind |-> "feed", entries |-> <<
              [title |-> <<" ","O","s","c","a","r","s"," ","w","i","n","s">>, link |-> <<"h","t","t","p",":","/","/","f",".","c","o","/","1">>,
               summary |-> << >>, published_parsed |-> <<2>>],
              [title |-> <<"o","s","c","a","r","s"," ","w","i","n","s"," ","p","o","s","t","e","r">>, link |-> <<"h","t","t","p",":","/","/","f",".","c","o","/","2">>,
               summary |-> <<"<","p",">","r","u","l","e","s","<","/","p",">">>, published_parsed |-> <<1>>] >>]
      [] url = FeedB ->
           [kind |-> "feed", entries |-> <<
              [title |-> <<"o","s","c","a","r","s"," ","w","i","n","s">>, link |-> <<"h","t","t","p",":","/","/","g",".","c","o","/","3">>,
               summary |-> << >>, published_parsed |-> <<-1>>],
              [title |-> << >>, link |-> <<"h","t","t","p",":","/","/","g",".","c","o","/","4">>,
               summary |-> <<"o","s","c","a","r","s">>, published_parsed |-> <<1>>],
              [title |-> <<"o","s","c","a","r","s"," ","w","i","n","n","e","r","s">>, link |-> <<"h","t","t","p",":","/","/","g",".","c","o","/","5">>,
               summary |-> << >>, published_parsed |-> NoTime] >>]
      [] url = PageP ->
           [kind |-> "page", anchors |-> <<
              [href |-> <<"/","o","s","c","a","r","s">>, text |-> <<"o","s","c","a","r","s"," "," ","w","i","n","s"," ","t","o","n","i","g","h","t">>, blurb |-> << >>],
              [href |-> <<"/","a","b","o","u","t">>, text |-> <<"a","b","o","u","t"," ","t","h","e"," ","o","s","c","a","r","s"," ","w","i","n","s">>, blurb |-> << >>],
              [href |-> <<"h","t","t","p",":","/","/","o",".","c","o","/","x">>, text |-> <<"o","s","c","a","r","s"," ","w","i","n","n","e","r","s"," ","a","b","r","o","a","d">>, blurb |-> << >>],
              [href |-> <<"/">>, text |-> <<"o","s","c","a","r","s">>, blurb |-> << >>],
              [href |-> <<"h","t","t","p",":","/","/","p",".","c","o","/","o","s","c","a","r","s">>, text |-> <<"o","s","c","a","r","s"," ","w","i","n","n","e","r","s"," ","t","o","n","i","g","h","t">>, blurb |-> << >>] >>]
      [] OTHER -> [kind |-> "error", exc |-> "HTTPError"]

-----------------------------------------------------------------------------
(* parse_rss, lines 78-93 *)

RssLimit == 40

\* BeautifulSoup(html, "html.parser").get_text(" ", strip=True) for markup with one
\* text node: the tags are dropped, the text is stripped
RECURSIVE DropTags(_, _)
DropTags(s, inTag) ==
    IF s = << >> THEN << >>
    ELSE IF Head(s) = "<" THEN DropTags(Tail(s), TRUE)
    ELSE IF Head(s) = ">" THEN DropTags(Tail(s), FALSE)
    ELSE IF inTag THEN DropTags(Tail(s), inTag)
    ELSE <<Head(s)>> \o DropTags(Tail(s), inTag)

get_text(html) == strip(DropTags(html, FALSE))

\* datetime.fromtimestamp(time.mktime(tm), tz=timezone.utc).isoformat(), for the
\* struct_time <<t>> of day t
isoformat(tm) ==
    LET t == tm[1] IN
    CASE t = -1 -> "1969-12-31T00:00:00+00:00"
      [] t = 0  -> "1970-01-01T00:00:00+00:00"
      [] t = 1  -> "1970-01-02T00:00:00+00:00"
      [] t = 2  -> "1970-01-03T00:00:00+00:00"

RssItem(e) ==
    [title |-> strip(e.title), url |-> strip(e.link), summary |-> get_text(e.summary),
     published |-> IF e.published_parsed # NoTime THEN isoformat(e.published_parsed) ELSE ""]

parse_rss(rss_url) ==
    LET r == Web(rss_url)
    IN  IF r.kind = "error" THEN [ok |-> FALSE, exc |-> r.exc]
        ELSE LET entries == IF r.kind = "feed" THEN Take(r.entries, RssLimit) ELSE << >>
                 all == [i \in DOMAIN entries |-> RssItem(entries[i])]
             IN  [ok |-> TRUE,
                  items |-> SelectSeq(all, LAMBDA it : it.title # << >> /\ it.url # << >>)]

-----------------------------------------------------------------------------
(* parse_listing, lines 95-137 *)

ListingLimit == 50

MinTitleLen == 18

\* " ".join(s.split()): runs of whitespace collapsed, ends stripped
RECURSIVE Collapse(_)
Collapse(s) ==
    IF Len(s) < 2 THEN s
    ELSE IF IsSpace(s[1]) /\ IsSpace(s[2]) THEN Collapse(Tail(s))
    ELSE <<Head(s)>> \o Collapse(Tail(s))

NormalizeSpace(s) == Collapse(strip(s))

\* index of the first occurrence of c in s from position i on; Len(s) + 1 when none
RECURSIVE Find(_, _, _)
Find(s, c, i) == IF i > Len(s) THEN Len(s) + 1 ELSE IF s[i] = c THEN i ELSE Find(s, c, i + 1)

\* start of the host in an absolute URL: after "//"
HostStart(u) == Find(u, "/", 1) + 2

\* urlparse(u).netloc of an absolute URL
netloc(u) == SubSeq(u, HostStart(u), Find(u, "/", HostStart(u)) - 1)

\* scheme://host of an absolute URL
Origin(u) == SubSeq(u, 1, Find(u, "/", HostStart(u)) - 1)

\* the URL up to and including its last "/"
RECURSIVE DirOf(_)
DirOf(u) == IF u = << >> \/ u[Len(u)] = "/" THEN u ELSE DirOf(SubSeq(u, 1, Len(u) - 1))

\* urljoin(base, href), for an href that is a path
urljoin(base, href) ==
    IF Contains(<<":">>, href) THEN href
    ELSE IF StartsWith(href, <<"/">>) THEN Origin(base) \o href
    ELSE DirOf(base) \o href

bad == << <<"p","r","i","v","a","c","y">>, <<"t","e","r","m","s">>, <<"a","c","c","o","u","n","t">>, <<"l","o","g","i","n">>, <<"s","u","b","s","c","r","i","b","e">>, <<"n","e","w","s","l","e","t","t","e","r">>,
          <<"c","o","n","t","a","c","t">>, <<"a","b","o","u","t">> >>

Anchor(page_url, a) ==
    LET href == strip(a.href)
        full == IF StartsWith(href, <<"h","t","t","p">>) THEN href ELSE urljoin(page_url, href)
    IN  [title |-> NormalizeSpace(a.text), url |-> full,
         summary |-> NormalizeSpace(a.blurb), published |-> ""]

Kept(page_url, it) ==
    /\ Len(it.title) >= MinTitleLen
    /\ StartsWith(it.url, <<"h","t","t","p">>)
    /\ netloc(it.url) = netloc(page_url)
    /\ Matches(bad, lower(it.url)) = << >>

\* dedupe by url: the first occurrence of each url
RECURSIVE DedupeByUrl(_)
DedupeByUrl(s) ==
    IF s = << >> THEN << >>
    ELSE LET r == DedupeByUrl(SubSeq(s, 1, Len(s) - 1))
             x == s[Len(s)]
         IN  IF x.url \in {y.url : y \in Range(r)} THEN r ELSE Append(r, x)

parse_listing(page_url) ==
    LET r == Web(page_url)
    IN  IF r.kind = "error" THEN [ok |-> FALSE, exc |-> r.exc]
        ELSE LET anchors == IF r.kind = "page" THEN r.anchors ELSE << >>
                 all == [i \in DOMAIN anchors |-> Anchor(page_url, anchors[i])]
                 found == SelectSeq(all, LAMBDA it : Kept(page_url, it))
             IN  [ok |-> TRUE, items |-> Take(DedupeByUrl(found), ListingLimit)]

-----------------------------------------------------------------------------
(* load_sources, load_seen, save_seen: lines 59-71 *)

\* json.load of sources.json (lines 60-61)
load_sources(file) ==
    IF ~file.exists THEN [ok |-> FALSE, exc |-> "FileNotFoundError"]
    ELSE [ok |-> TRUE, value |-> file.list]

\* lines 64-67: an absent file is the empty set, json.load raises on a corrupt one
load_seen(file) ==
    IF file.kind = "absent" THEN [ok |-> TRUE, value |-> {}]
    ELSE IF file.kind = "corrupt" THEN [ok |-> FALSE, exc |-> "JSONDecodeError"]
    ELSE [ok |-> TRUE, value |-> Range(file.ids)]

\* The ids the model's web can produce, and one of an item no longer offered, in
\* the order of their hex digests (the order sorted() puts them in).
IdOld == stable_id(<<"h","t","t","p",":","/","/","f",".","c","o","/","0">>, <<"o","s","c","a","r","s"," ","1","9","9","9">>)

IdOrder == <<
    stable_id(<<"h","t","t","p",":","/","/","f",".","c","o","/","1">>, <<"O","s","c","a","r","s"," ","w","i","n","s">>),
    IdOld,
    stable_id(<<"h","t","t","p",":","/","/","g",".","c","o","/","3">>, <<"o","s","c","a","r","s"," ","w","i","n","s">>),
    stable_id(<<"h","t","t","p",":","/","/","p",".","c","o","/","o","s","c","a","r","s">>, <<"o","s","c","a","r","s"," ","w","i","n","s"," ","t","o","n","i","g","h","t">>),
    stable_id(<<"h","t","t","p",":","/","/","f",".","c","o","/","2">>, <<"o","s","c","a","r","s"," ","w","i","n","s"," ","p","o","s","t","e","r">>),
    stable_id(<<"h","t","t","p",":","/","/","g",".","c","o","/","5">>, <<"o","s","c","a","r","s"," ","w","i","n","n","e","r","s">>) >>

\* json.dump(sorted(seen), f, indent=2), line 71
save_seen(s) == [kind |-> "list", ids |-> SelectSeq(IdOrder, LAMBDA id : id \in s)]

-----------------------------------------------------------------------------
(* main, lines 211-275 *)

\* s.get(k)
Get(s, k) == IF k \in DOMAIN s THEN s[k] ELSE None

\* a str is true when it is not empty
Truthy(v) == v # None /\ v # << >>

\* lines 222-226: the adapter call of one source; s["url"] raises KeyError
CallAdapter(s) ==
    IF Truthy(Get(s, "rss")) THEN parse_rss(s["rss"])
    ELSE IF "url" \in DOMAIN s THEN parse_listing(s["url"])
    ELSE [ok |-> FALSE, exc |-> "KeyError"]

\* whether lines 222-226 reach an adapter (and so the network) for s
CallsAdapter(s) == Truthy(Get(s, "rss")) \/ "url" \in DOMAIN s

\* line 228 without the append
RecordFailureDropped(errs, s, e) == errs

\* errors.append(f"{s['name']}: {e}"), line 228
RecordFailure(errs, s, e) == Append(errs, <<s["name"], e>>)

\* float(v) of line 215 returns; it raises ValueError otherwise
IsFloat(v) == v \in {"3.5", "4.6"}

\* float(v), in tenths
float(v) == CASE v = "3.5" -> 35 [] v = "4.6" -> 46

EnvGet(env, k, default) == IF env[k] = "unset" THEN default ELSE env[k]

\* line 239 with the comparison off by one step
BelowThresholdOrEqual(score, min) == score <= min

\* score < min_score, line 239
BelowThreshold(score, min) == score < min

\* line 253-254 with the flag ignored
MarkSeenAlways(s, sid, mark) == s \cup {sid}

\* lines 253-254 never adding
MarkSeenNever(s, sid, mark) == s

\* if mark_seen: seen.add(sid), lines 253-254
MarkSeen(s, sid, mark) == IF mark THEN s \cup {sid} ELSE s

\* text = f"{it['title']} {it.get('summary','')}", line 236
ItemText(it) == it.title \o <<" ">> \o it.summary

\* the fields of s that lines 247-250 read
RecordFields == {"name", "type", "affects_nom", "affects_win"}

\* the dict of lines 242-251
OutRecord(it, sid, sc, s) ==
    [title |-> it.title, url |-> it.url, summary |-> it.summary, published |-> it.published,
     id |-> sid, score |-> sc.score, hits |-> sc.hits,
     source |-> s["name"], type |-> s["type"],
     affects_nom |-> s["affects_nom"], affects_win |-> s["affects_win"]]

Epoch == 0

\* datetime.fromisoformat(p.replace("Z", "+00:00")): <<day>>, or << >> when it raises
\* ValueError because p is no ISO date
fromisoformat(p) ==
    CASE p = "1969-12-31T00:00:00+00:00" -> <<-1>>
      [] p = "1970-01-01T00:00:00+00:00" -> <<0>>
      [] p = "1970-01-02T00:00:00+00:00" -> <<1>>
      [] p = "1970-01-03T00:00:00+00:00" -> <<2>>
      [] OTHER -> << >>

\* pub_key with a default older than every date
pub_key_oldest(p) == IF fromisoformat(p) = << >> THEN -1000 ELSE fromisoformat(p)[1]

\* pub_key, lines 257-261
pub_key(p) == IF fromisoformat(p) = << >> THEN Epoch ELSE fromisoformat(p)[1]

\* the sort key of line 263, compared as tuples
KeyLess(x, y) ==
    \/ x.score < y.score
    \/ x.score = y.score /\ pub_key(x.published) < pub_key(y.published)

\* x put behind every element whose key is not less than x's
InsertDesc(s, x) ==
    LET behind == {i \in DOMAIN s : KeyLess(s[i], x)}
        at == IF behind = {} THEN Len(s) + 1 ELSE CHOOSE i \in behind : \A j \in behind : i <= j
    IN  SubSeq(s, 1, at - 1) \o <<x>> \o SubSeq(s, at, Len(s))

\* all_items.sort(key=..., reverse=True), line 263: stable, descending
RECURSIVE SortItems(_)
SortItems(s) ==
    IF s = << >> THEN << >>
    ELSE InsertDesc(SortItems(SubSeq(s, 1, Len(s) - 1)), s[Len(s)])

\* main()'s locals before line 212 has run
FreshLocals ==
    /\ sources = << >> /\ seen = {} /\ min_score = 0 /\ mark_seen = FALSE
    /\ all_items = << >> /\ errors = << >> /\ si = 0 /\ items = << >> /\ ii = 0
    /\ raised = "none"

FreshHistory == seen0 = {} /\ fetched = {} /\ wrote = FALSE /\ saved = FALSE

\* an uncaught exception leaves main(): the process ends with a traceback
Raise(exc) == pc' = "crashed" /\ raised' = exc

MinScoreSettings == {"unset", "4.6", "abc"}

MarkSeenSettings == {"unset", "1", "true"}

\* The process is started (line 277-278) with some environment.
Invoke ==
    /\ pc = "idle"
    /\ environ' \in [MIN_SCORE : MinScoreSettings, MARK_SEEN : MarkSeenSettings]
    /\ pc' = "load_sources"
    /\ UNCHANGED <<sources_json, state_file, index_html>>
    /\ UNCHANGED <<sources, seen, min_score, mark_seen, all_items, errors, si, items, ii, raised>>
    /\ UNCHANGED <<histVars, scoreVars, idVars>>

\* line 212
LoadSources ==
    /\ pc = "load_sources"
    /\ LET r == load_sources(sources_json)
       IN  IF r.ok THEN sources' = r.value /\ pc' = "load_seen" /\ raised' = raised
           ELSE Raise(r.exc) /\ sources' = sources
    /\ UNCHANGED <<seen, min_score, mark_seen, all_items, errors, si, items, ii>>
    /\ UNCHANGED <<worldVars, histVars, scoreVars, idVars>>

\* line 213
LoadSeen ==
    /\ pc = "load_seen"
    /\ LET r == load_seen(state_file)
       IN  IF r.ok THEN seen' = r.value /\ seen0' = r.value /\ pc' = "env" /\ raised' = raised
           ELSE Raise(r.exc) /\ UNCHANGED <<seen, seen0>>
    /\ UNCHANGED <<sources, min_score, mark_seen, all_items, errors, si, items, ii>>
    /\ UNCHANGED <<worldVars, fetched, wrote, saved, prev, scoreVars, idVars>>

\* lines 215-219
ReadEnv ==
    /\ pc = "env"
    /\ LET v == EnvGet(environ, "MIN_SCORE", "3.5")
       IN  IF IsFloat(v)
           THEN /\ min_score' = float(v)
                /\ mark_seen' = (EnvGet(environ, "MARK_SEEN", "0") = "1")
                /\ all_items' = << >> /\ errors' = << >>
                /\ si' = 1 /\ pc' = "sources" /\ raised' = raised
           ELSE /\ Raise("ValueError")
                /\ UNCHANGED <<min_score, mark_seen, all_items, errors, si>>
    /\ UNCHANGED <<sources, seen, items, ii>>
    /\ UNCHANGED <<worldVars, histVars, scoreVars, idVars>>

\* lines 221-229: the for loop takes the next source and calls its adapter, or ends
NextSource ==
    /\ pc = "sources"
    /\ IF si > Len(sources)
       THEN /\ pc' = "sort"
            /\ UNCHANGED <<errors, si, items, ii, raised, fetched>>
       ELSE LET s == sources[si]
                r == CallAdapter(s)
            IN  /\ fetched' = IF CallsAdapter(s) THEN fetched \cup {si} ELSE fetched
                /\ IF r.ok
                   THEN /\ items' = r.items /\ ii' = 1 /\ pc' = "items"
                        /\ UNCHANGED <<errors, si, raised>>
                   ELSE IF "name" \in DOMAIN s
                   THEN /\ errors' = RecordFailure(errors, s, r.exc)
                        /\ si' = si + 1 /\ pc' = pc
                        /\ UNCHANGED <<items, ii, raised>>
                   ELSE /\ Raise("KeyError")
                        /\ UNCHANGED <<errors, si, items, ii>>
    /\ UNCHANGED <<sources, seen, min_score, mark_seen, all_items>>
    /\ UNCHANGED <<worldVars, seen0, wrote, saved, prev, scoreVars, idVars>>

\* lines 231-254: the inner for loop takes the next item, or ends
NextItem ==
    /\ pc = "items"
    /\ IF ii > Len(items)
       THEN /\ si' = si + 1 /\ pc' = "sources"
            /\ UNCHANGED <<seen, all_items, ii, raised>>
       ELSE LET it  == items[ii]
                s   == sources[si]
                sid == stable_id(it.url, it.title)
                sc  == score_item(ItemText(it))
            IN  IF sid \in seen \/ BelowThreshold(sc.score, min_score)
                THEN /\ ii' = ii + 1 /\ pc' = pc
                     /\ UNCHANGED <<seen, all_items, si, raised>>
                ELSE IF RecordFields \subseteq DOMAIN s
                THEN /\ all_items' = Append(all_items, OutRecord(it, sid, sc, s))
                     /\ seen' = MarkSeen(seen, sid, mark_seen)
                     /\ ii' = ii + 1 /\ pc' = pc
                     /\ UNCHANGED <<si, raised>>
                ELSE /\ Raise("KeyError")
                     /\ UNCHANGED <<seen, all_items, si, ii>>
    /\ UNCHANGED <<sources, min_score, mark_seen, errors, items>>
    /\ UNCHANGED <<worldVars, histVars, scoreVars, idVars>>

\* lines 256-269: sort, render and write the digest; the write may fail
SortAndRender ==
    /\ pc = "sort"
    /\ all_items' = SortItems(all_items)
    /\ \E writable \in BOOLEAN :
         IF writable
         THEN /\ index_html' = [exists |-> TRUE, min_score |-> min_score, items |-> all_items']
              /\ wrote' = TRUE /\ pc' = "save" /\ raised' = raised
         ELSE /\ Raise("OSError")
              /\ UNCHANGED <<index_html, wrote>>
    /\ UNCHANGED <<sources, seen, min_score, mark_seen, errors, si, items, ii>>
    /\ UNCHANGED <<sources_json, state_file, environ>>
    /\ UNCHANGED <<seen0, fetched, saved, prev, scoreVars, idVars>>

\* lines 271-275: save the state, report the failed sources, return
SaveSeen ==
    /\ pc = "save"
    /\ state_file' = save_seen(seen)
    /\ saved' = TRUE
    /\ pc' = "done"
    /\ UNCHANGED <<sources, seen, min_score, mark_seen, all_items, errors, si, items, ii, raised>>
    /\ UNCHANGED <<sources_json, index_html, environ>>
    /\ UNCHANGED <<seen0, fetched, wrote, prev, scoreVars, idVars>>

\* The process has ended, normally or with a traceback; the files stay.
Exit ==
    /\ pc \in {"done", "crashed"}
    /\ prev' = IF pc = "done" /\ mark_seen THEN [marked |-> TRUE, min |-> min_score]
               ELSE [marked |-> FALSE, min |-> 0]
    /\ pc' = "idle"
    /\ environ' = [MIN_SCORE |-> "unset", MARK_SEEN |-> "unset"]
    /\ sources' = << >> /\ seen' = {} /\ min_score' = 0 /\ mark_seen' = FALSE
    /\ all_items' = << >> /\ errors' = << >> /\ si' = 0 /\ items' = << >> /\ ii' = 0
    /\ raised' = "none"
    /\ seen0' = {} /\ fetched' = {} /\ wrote' = FALSE /\ saved' = FALSE
    /\ UNCHANGED <<sources_json, state_file, index_html, scoreVars, idVars>>

Next == Invoke \/ LoadSources \/ LoadSeen \/ ReadEnv \/ NextSource \/ NextItem
            \/ SortAndRender \/ SaveSeen \/ Exit

-----------------------------------------------------------------------------
(* Initial states *)

MaxSources == 3

SourceName(i) == <<"source", i>>

\* a complete source record (the shape of an entry of sources.json)
Source(i, key, location) ==
    [f \in {"name", "type", "affects_nom", "affects_win", key} |->
        CASE f = "name" -> SourceName(i)
          [] f = "type" -> "trade"
          [] f = "affects_nom" -> TRUE
          [] f = "affects_win" -> FALSE
          [] OTHER -> location]

\* a record without field k
Without(s, k) == [f \in DOMAIN s \ {k} |-> s[f]]

Subscriptions ==
    {<<"rss", FeedA>>, <<"rss", FeedB>>, <<"url", PageP>>, <<"url", PageDown>>}

\* complete source lists of at most MaxSources sources
SourceLists ==
    UNION {{[i \in 1..n |-> Source(i, f[i][1], f[i][2])] : f \in [1..n -> Subscriptions]}
           : n \in 0..MaxSources}

StateFiles ==
    {[kind |-> "absent", ids |-> << >>], [kind |-> "corrupt", ids |-> << >>],
     [kind |-> "list",
      ids |-> <<stable_id(<<"h","t","t","p",":","/","/","p",".","c","o","/","o","s","c","a","r","s">>, <<"o","s","c","a","r","s"," ","w","i","n","s"," ","t","o","n","i","g","h","t">>), IdOld,
                stable_id(<<"h","t","t","p",":","/","/","f",".","c","o","/","1">>, <<"O","s","c","a","r","s"," ","w","i","n","s">>)>>]}

ScorerIdle == text = << >> /\ scored = << >>

IdentityIdle == pairA = << >> /\ pairB = << >> /\ idA = << >> /\ idB = << >>

PipelineInit ==
    /\ index_html = [exists |-> FALSE, min_score |-> 0, items |-> << >>]
    /\ environ = [MIN_SCORE |-> "unset", MARK_SEEN |-> "unset"]
    /\ pc = "idle"
    /\ FreshLocals /\ FreshHistory
    /\ prev = [marked |-> FALSE, min |-> 0]
    /\ ScorerIdle /\ IdentityIdle

Init ==
    /\ sources_json \in {[exists |-> TRUE, list |-> l] : l \in SourceLists}
    /\ state_file \in StateFiles
    /\ PipelineInit

Spec == Init /\ [][Next]_vars

-----------------------------------------------------------------------------
(* The pipeline on source lists that lack fields, and without sources.json *)

Incomplete ==
    LET bases == {<<"rss", FeedA>>, <<"url", PageDown>>}
    IN  {<<b, "none">> : b \in bases} \cup {<<b, "name">> : b \in bases}
          \cup {<<b, "type">> : b \in bases} \cup {<<<<"rss", FeedA>>, "rss">>}

\* source lists of at most MaxSources sources, each complete or lacking one field
AnySourceLists ==
    UNION {{[i \in 1..n |-> Without(Source(i, f[i][1][1], f[i][1][2]), f[i][2])]
              : f \in [1..n -> Incomplete]}
           : n \in 0..MaxSources}

InitCfg ==
    /\ sources_json \in {[exists |-> TRUE, list |-> l] : l \in AnySourceLists}
                          \cup {[exists |-> FALSE, list |-> << >>]}
    /\ state_file \in {f \in StateFiles : f.kind # "list"}
    /\ PipelineInit

SpecCfg == InitCfg /\ [][Next]_vars

-----------------------------------------------------------------------------
(* score_item on its own *)

MaxPhrases == 6

Phrases == <<
    <<"O","s","c","a","r","s">>, <<"a","c","a","d","e","m","y"," ","a","w","a","r","d","s">>, <<"g","o","l","d","e","n"," ","g","l","o","b","e","s">>, <<"n","o","m","i","n","a","t","i","o","n","s">>, <<"n","o","m","i","n","e","e","s">>,
    <<"w","i","n","n","e","r","s">>, <<"s","h","o","r","t","l","i","s","t">>, <<"t","w","i","n","s">>, <<"r","u","l","e","s"," ","d","e","a","d","l","i","n","e">>,
    <<"F","i","r","s","t"," ","L","o","o","k",":">>, <<"N","e","w"," ","T","r","a","i","l","e","r">>, <<"P","o","s","t","e","r"," ","R","e","v","e","a","l","e","d">> >>

\* the phrases numbered in T, in order, joined by single spaces
RECURSIVE Join(_, _)
Join(T, i) ==
    IF i > Len(Phrases) THEN << >>
    ELSE IF i \notin T THEN Join(T, i + 1)
    ELSE LET rest == Join(T, i + 1)
         IN  IF rest = << >> THEN Phrases[i] ELSE Phrases[i] \o <<" ">> \o rest

Texts == {Join(T, 1) : T \in {U \in SUBSET DOMAIN Phrases : Cardinality(U) <= MaxPhrases}}

PipelineIdle ==
    /\ sources_json = [exists |-> FALSE, list |-> << >>]
    /\ state_file = [kind |-> "absent", ids |-> << >>]
    /\ index_html = [exists |-> FALSE, min_score |-> 0, items |-> << >>]
    /\ environ = [MIN_SCORE |-> "unset", MARK_SEEN |-> "unset"]
    /\ pc = "idle"
    /\ FreshLocals /\ FreshHistory
    /\ prev = [marked |-> FALSE, min |-> 0]

InitScore ==
    /\ text \in Texts
    /\ scored = << >>
    /\ PipelineIdle /\ IdentityIdle

\* score, hits = score_item(text)
Score ==
    /\ scored = << >>
    /\ scored' = <<score_item(text)>>
    /\ UNCHANGED <<text, worldVars, localVars, histVars, idVars>>

NextScore == Score

SpecScore == InitScore /\ [][NextScore]_vars

-----------------------------------------------------------------------------
(* stable_id on its own *)

MaxStrLen == 2

Alphabet == {"a", "A", " ", "|"}

Strings == UNION {[1..n -> Alphabet] : n \in 0..MaxStrLen}

Pairs == [url : Strings, title : Strings \cup {None}]

InitId ==
    /\ pairA \in Pairs /\ pairB \in Pairs
    /\ idA = << >> /\ idB = << >>
    /\ PipelineIdle /\ ScorerIdle

\* sid = stable_id(url, title), for both pairs
Identify ==
    /\ idA = << >>
    /\ idA' = stable_id(pairA.url, pairA.title)
    /\ idB' = stable_id(pairB.url, pairB.title)
    /\ UNCHANGED <<pairA, pairB, worldVars, localVars, histVars, scoreVars>>

NextId == Identify

SpecId == InitId /\ [][NextId]_vars

-----------------------------------------------------------------------------
(* Properties *)

\* main() has run lines 215-219 in this run
PastEnv ==
    \/ pc \in {"sources", "items", "sort", "save", "done"}
    \/ pc = "crashed" /\ raised \in {"KeyError", "OSError"}

\* the for loop of line 221 has ended
LoopDone == pc \in {"sort", "save", "done"} \/ (pc = "crashed" /\ raised = "OSError")

\* line 263 has run
Sorted == pc \in {"save", "done"} \/ (pc = "crashed" /\ raised = "OSError")

\* an adapter's answer, each item with its stable id and its score
Annotated(r) ==
    [ok |-> r.ok,
     items |-> IF ~r.ok THEN << >>
               ELSE [j \in DOMAIN r.items |->
                       [item |-> r.items[j],
                        id |-> stable_id(r.items[j].url, r.items[j].title),
                        score |-> score_item(ItemText(r.items[j])).score]]]

\* what each adapter answers for each location of the web (the web does not change)
Answers ==
    [u \in {FeedA, FeedB, PageP, PageDown} |->
        [rss |-> Annotated(parse_rss(u)), url |-> Annotated(parse_listing(u))]]

\* what lines 222-226 get for source s
AnswerTo(s) ==
    IF Truthy(Get(s, "rss")) THEN Answers[s["rss"]].rss
    ELSE IF "url" \in DOMAIN s THEN Answers[s["url"]].url
    ELSE [ok |-> FALSE, items |-> << >>]

\* the adapter of source k raises
Fails(k) == ~AnswerTo(sources[k]).ok

\* what each source of the list offers in this run: the items of the sources whose
\* adapter returns
Offered == [k \in DOMAIN sources |-> AnswerTo(sources[k]).items]

\* an output record made from item it of source k
From(r, k, it) ==
    /\ r.source = sources[k]["name"]
    /\ r.title = it.title /\ r.url = it.url
    /\ r.summary = it.summary /\ r.published = it.published

Count(s, x) == Cardinality({i \in DOMAIN s : s[i] = x})

IsPermutation(s, t) ==
    /\ Len(s) = Len(t)
    /\ \A x \in Range(s) \cup Range(t) : Count(s, x) = Count(t, x)

----
\* C1: when the previous run returned normally in mark-seen mode, a run in mark-seen
\* mode with the same threshold, the same source list and the same source content
\* collects no item at all.
DedupIdempotence ==
    (prev.marked /\ PastEnv /\ mark_seen /\ min_score = prev.min) => all_items = << >>

\* The second of two such runs has gone through its sources, the first one's digest
\* (still on disk) shows items, and the second has none.
DedupIdempotenceWitness ==
    /\ prev.marked /\ mark_seen /\ min_score = prev.min
    /\ pc = "sort" /\ sources # << >>
    /\ index_html.exists /\ index_html.items # << >>
    /\ all_items = << >>

----
\* C2: once the loop over a complete source list has ended, every source was tried,
\* no source's failure left main(), errors holds exactly one entry per failing source,
\* no output record is from a failing source, and every item of a non-failing source
\* that was unseen at load and reaches the threshold is in the output.
PartialFailureIsolation ==
    /\ raised \notin {"KeyError", "HTTPError"}
    /\ LoopDone =>
         /\ fetched = DOMAIN sources
         /\ Len(errors) = Cardinality({k \in DOMAIN sources : Fails(k)})
         /\ \A k \in DOMAIN sources :
              Cardinality({j \in DOMAIN errors : errors[j][1] = sources[k]["name"]})
                = IF Fails(k) THEN 1 ELSE 0
         /\ \A r \in Range(all_items) :
              \E k \in DOMAIN sources : ~Fails(k) /\ r.source = sources[k]["name"]
         /\ LET offered == Offered
            IN  \A k \in DOMAIN sources : \A j \in DOMAIN offered[k] :
                   LET o == offered[k][j]
                   IN  (o.id \notin seen0 /\ o.score >= min_score)
                          => \E r \in Range(all_items) :
                                /\ r.id = o.id
                                /\ ~mark_seen => From(r, k, o.item)

\* Three sources, the second failing: results from the first and the third, and one
\* recorded failure, for the second.
PartialFailureIsolationWitness ==
    /\ pc = "done" /\ Len(sources) = 3
    /\ ~Fails(1) /\ Fails(2) /\ ~Fails(3)
    /\ errors = << <<sources[2]["name"], "HTTPError">> >>
    /\ \E r \in Range(all_items) : r.source = sources[1]["name"]
    /\ \E r \in Range(all_items) : r.source = sources[3]["name"]

----
\* C3: a run that got past load_seen and then ended in an exception raised while a
\* source or an item was processed, or while the digest was written, has called
\* save_seen.
SaveSeenOnEveryOutcome ==
    (pc = "crashed" /\ raised \in {"KeyError", "OSError"}) => saved

----
\* a source record with every required field
Complete(s) ==
    /\ {"name", "type", "affects_nom", "affects_win"} \subseteq DOMAIN s
    /\ "rss" \in DOMAIN s \/ "url" \in DOMAIN s

ConfigurationError(list) == list = << >> \/ \E i \in DOMAIN list : ~Complete(list[i])

\* C4: in a run whose source list is empty or has a record lacking a required field,
\* no source is fetched and no digest is written.
ConfigurationErrorFatal ==
    (sources_json.exists /\ ConfigurationError(sources_json.list))
        => (fetched = {} /\ ~wrote)

----
\* C5: in a run with mark-seen mode off, seen stays the set that was loaded, and
\* the list save_seen writes holds exactly that set.
MarkSeenOffKeepsSeen ==
    (PastEnv /\ ~mark_seen) =>
        /\ seen = seen0
        /\ saved => (state_file.kind = "list" /\ Range(state_file.ids) = seen0)

\* A run with mark-seen mode off that loaded a non-empty set, output items and saved.
MarkSeenOffKeepsSeenWitness ==
    /\ pc = "done" /\ ~mark_seen /\ saved
    /\ seen0 # {} /\ all_items # << >>

----
\* C6: load_seen never ends the run, and gives the empty set for a state file that
\* is absent or cannot be parsed.
LoadSeenNonFatal ==
    /\ raised # "JSONDecodeError"
    /\ (pc = "env" /\ state_file.kind \in {"absent", "corrupt"}) => seen = {}

----
\* the ids in seen when item j of source k is reached: those loaded and, in
\* mark-seen mode, those of the items output before it
SeenBefore(offered, k, j) ==
    seen0 \cup
    IF mark_seen
    THEN UNION {{offered[k2][j2].id :
                    j2 \in {x \in DOMAIN offered[k2] :
                              /\ k2 < k \/ x < j
                              /\ offered[k2][x].score >= min_score}}
                : k2 \in {y \in DOMAIN sources : y <= k}}
    ELSE {}

\* C7: once the loop has ended, an item of a non-failing source that was unseen when
\* it was reached is in the output exactly if its score is at least min_score.
ThresholdFilter ==
    LoopDone =>
        LET offered == Offered
        IN  \A k \in DOMAIN sources : \A j \in DOMAIN offered[k] :
               LET o == offered[k][j]
               IN  o.id \notin SeenBefore(offered, k, j) =>
                      ((\E r \in Range(all_items) : From(r, k, o.item))
                          <=> o.score >= min_score)

\* A finished run whose output holds an item scoring exactly min_score, while an
\* unseen item of the same source scoring one step less than it is left out.
ThresholdFilterWitness ==
    /\ pc = "done"
    /\ \E r \in Range(all_items) : r.score = min_score
    /\ LET offered == Offered
       IN  \E k \in DOMAIN sources : \E j \in DOMAIN offered[k] :
              /\ offered[k][j].id \notin seen0
              /\ offered[k][j].score < min_score
              /\ ~\E r \in Range(all_items) : From(r, k, offered[k][j].item)

----
\* the publish time the ranking goes by: the parsed one, the epoch when there is none
HasTime(r) == fromisoformat(r.published) # << >>

TimeOf(r) == IF HasTime(r) THEN fromisoformat(r.published)[1] ELSE 0

Ranked(s) ==
    \A i, j \in DOMAIN s : i < j =>
        \/ s[i].score > s[j].score
        \/ s[i].score = s[j].score /\ TimeOf(s[i]) >= TimeOf(s[j])

\* C8 as amended: line 263 turns all_items into a permutation of itself, ordered by
\* descending score and then descending publish time with a missing or unparseable
\* time counting as the epoch; of two items with equal score, one with a valid time
\* later than the epoch and one without a valid time, the first comes first.
Ranking ==
    [][(pc = "sort" /\ pc' # "sort") =>
          /\ IsPermutation(all_items, all_items')
          /\ Ranked(all_items')
          /\ \A i, j \in DOMAIN all_items' :
                (/\ all_items'[i].score = all_items'[j].score
                 /\ HasTime(all_items'[i]) /\ TimeOf(all_items'[i]) > 0
                 /\ ~HasTime(all_items'[j])) => i < j]_vars

\* A sorted list in which an item dated after the epoch, an undated one and one dated
\* before the epoch have the same score.
RankingWitness ==
    /\ pc = "done"
    /\ \E i, j, k \in DOMAIN all_items :
          /\ i < j /\ j < k
          /\ all_items[i].score = all_items[j].score
          /\ all_items[j].score = all_items[k].score
          /\ HasTime(all_items[i]) /\ TimeOf(all_items[i]) > 0
          /\ ~HasTime(all_items[j])
          /\ HasTime(all_items[k])

\* C8 as stated: in the sorted list, of two items with equal score, one with a valid
\* publish time and one without, the one with the valid time comes first.
ValidTimeFirst ==
    Sorted =>
        \A i, j \in DOMAIN all_items :
            (/\ all_items[i].score = all_items[j].score
             /\ HasTime(all_items[i]) /\ ~HasTime(all_items[j])) => i < j

----
\* url and title as stable_id takes them: trimmed, None as the empty title
Trimmed(p) == <<strip(p.url), strip(OrEmpty(p.title))>>

\* C9: two (url, title) pairs have the same stable id exactly if they are equal after
\* trimming.
StableIdInjective ==
    idA # << >> => ((idA = idB) <=> (Trimmed(pairA) = Trimmed(pairB)))

----
NoDuplicates(s) == \A i, j \in DOMAIN s : s[i] = s[j] => i = j

\* C10: score_item's score is within [0.0, 10.0] and its signal list has at most 10
\* entries, no two equal.
ScoreBounded ==
    scored # << >> =>
        /\ 0 <= scored[1].score /\ scored[1].score <= 100
        /\ Len(scored[1].hits) <= 10
        /\ NoDuplicates(scored[1].hits)

\* A text matching more than ten award terms: the score is cut to 10.0 and the
\* signals to ten.
ScoreBoundedWitness ==
    /\ scored # << >>
    /\ Len(Matches(AWARD_TERMS, lower(text))) > 10
    /\ scored[1].score = 100 /\ Len(scored[1].hits) = 10

=============================================================================
